---- MODULE Spec2Model ----
(***************************************************************************)
(* Model of condor/check_jobs.py: the script that checks that every        *)
(* submitted HTCondor job of a (processor, tag, year) batch has produced   *)
(* its outputs, and optionally resubmits the jobs that have not.           *)
(*                                                                         *)
(* Strings that the script splits on "_" are modelled as the sequence of   *)
(* their "_"-separated tokens: the sample "a_b" is <<"a", "b">>, the job   *)
(* name "2018_a_b_1" is <<"2018", "a", "b", "1">>.  A file is a record of   *)
(* its token sequence (stem) and its extension; a path adds the sequence   *)
(* of its directories.                                                     *)
(*                                                                         *)
(* The module also models _process_samples of boostedhh/plotting.py, the   *)
(* helper that lines up the keys, colours and labels of a plot.  Its keys  *)
(* and labels are token sequences too, and its dicts are sequences of      *)
(* (key, val) records in insertion order.                                  *)
(***************************************************************************)
EXTENDS Integers, Sequences, FiniteSets, TLC

\* ------------------------------------------------------------------ bounds
MaxIdx == 1
MaxJdls == 2
\* the longest bg_order and sig_keys given to _process_samples
MaxKeys == 2

\* ------------------------------------------------------- names and strings
Years == {"2017", "2018"}
\* the year of the run that is checked, and the year of another batch
RunYear == "2018"
OtherYear == "2017"
Processors == {"trigger", "skimmer"}
Digits == <<"0", "1", "2", "3", "4", "5", "6", "7", "8", "9">>

Range(f) == {f[k] : k \in DOMAIN f}
Last(q) == q[Len(q)]

\* str(i) of an f-string, for a one-digit index
ToStr(n) == Digits[n + 1]
\* int(tok) for a token that is a decimal digit, or "-1"
ParseInt(tok) == IF tok = "-1" THEN -1 ELSE CHOOSE n \in 0..9 : Digits[n + 1] = tok
\* the tokens that int() is applied to
IndexTokens == Range(Digits) \cup {"-1"}
\* args.tag
Tag == "v1"

\* f"{args.year}_{sample}_{i}"
JobName(y, sample, n) == <<y>> \o sample \o <<ToStr(n)>>

\* jdl_file and err_file of one job
JdlPath(proc, y, sample, n) ==
    [dir |-> <<"condor", proc, Tag>>, stem |-> JobName(y, sample, n), ext |-> "jdl"]
\* ErrPath that puts the log beside the directive, not under logs/
ErrPathBesideJdl(proc, y, sample, n) ==
    [dir |-> <<"condor", proc, Tag>>, stem |-> JobName(y, sample, n), ext |-> "err"]

ErrPath(proc, y, sample, n) ==
    [dir |-> <<"condor", proc, Tag, "logs">>, stem |-> JobName(y, sample, n), ext |-> "err"]

\* ------------------------------------------------------------ environment
Indices == 0..MaxIdx
\* the samples of the output storage, and one more that only the submission
\* directory knows
Names == {<<"a">>, <<"a", "b">>}
DirectiveNames == Names \cup {<<"b">>}
AllJobNames == {JobName(y, n, k) : y \in Years, n \in DirectiveNames, k \in Indices}

\* the files a condor/<processor>/<tag>/ directory may hold
JdlFiles == {[stem |-> JobName(RunYear, n, k), ext |-> "jdl"] : n \in Names, k \in Indices}
LogsDir == [stem |-> <<"logs">>, ext |-> ""]
AllCondorFiles ==
    {[stem |-> j, ext |-> "jdl"] : j \in AllJobNames}
    \cup {LogsDir, [stem |-> <<"2018">>, ext |-> "jdl"],
          [stem |-> <<"2018", "a", "0">>, ext |-> "sub"]}

\* directives whose index token is "-1": when a sample has no other
\* directive its expected count is 0
MinusOneFiles == {[stem |-> <<RunYear>> \o n \o <<"-1">>, ext |-> "jdl"] : n \in Names}

\* an output file <prefix>_<index>.<ext>
OutFile(n) == <<"out", ToStr(n)>>
RECURSIVE AscendingListing(_, _)
AscendingListing(S, n) ==
    IF n > MaxIdx THEN <<>>
    ELSE (IF n \in S THEN <<OutFile(n)>> ELSE <<>>) \o AscendingListing(S, n + 1)
\* the listings of an output directory: one per set of produced indices
Listings == {AscendingListing(S, 0) : S \in SUBSET Indices}
\* a directory that does not exist lists nothing
NoDir == [exists |-> FALSE, files |-> <<>>]
DirStates == {[exists |-> TRUE, files |-> l] : l \in Listings} \cup {NoDir}
\* a directory that is absent, empty or complete
PlainDirStates ==
    {NoDir, [exists |-> TRUE, files |-> <<>>],
     [exists |-> TRUE, files |-> AscendingListing(Indices, 0)]}

\* the lines of `condor_q | awk '{print $9}'`
ShLines ==
    {[stem |-> JobName(RunYear, n, k), ext |-> "sh"] : n \in Names, k \in Indices}
    \cup {[stem |-> JobName(OtherYear, n, 0), ext |-> "sh"] : n \in Names}
OtherLines == {[stem |-> <<"CMD">>, ext |-> ""]}
QueueLines == ShLines \cup OtherLines
\* every job of the batch of one year, in the order of the queue
RECURSIVE BatchLines(_, _, _)
BatchLines(y, names, n) ==
    IF names = <<>> THEN <<>>
    ELSE IF n > MaxIdx THEN BatchLines(y, Tail(names), 0)
    ELSE <<[stem |-> JobName(y, Head(names), n), ext |-> "sh"]>> \o BatchLines(y, names, n + 1)
\* a queue of jobs that look like job 0 of sample a: the same job of the
\* other year, and job 0 of the sample whose name starts with a_
LookalikeLines ==
    <<[stem |-> JobName(OtherYear, <<"a">>, 0), ext |-> "sh"],
      [stem |-> JobName(RunYear, <<"a", "b">>, 0), ext |-> "sh"]>>
\* the queue is empty, holds one line, holds the whole batch of the year, or
\* holds the lookalikes
Queues(y) ==
    {<<>>} \cup {<<l>> : l \in QueueLines}
           \cup {BatchLines(y, <<<<"a">>, <<"a", "b">>>>, 0), LookalikeLines}

RECURSIVE SeqsUpTo(_, _)
SeqsUpTo(S, n) ==
    IF n = 0 THEN {<<>>}
    ELSE LET shorter == SeqsUpTo(S, n - 1)
         IN  shorter \cup {Append(q, x) : q \in shorter, x \in S}

NoDup(q) == \A k, l \in DOMAIN q : k # l => q[k] # q[l]
\* the listings of a directory that holds some of the entries S, each once
DirListings(S) == {q \in SeqsUpTo(S, Cardinality(S)) : NoDup(q)}

\* output files of two prefixes, so that two files may carry one index
PrefixedFiles == {<<p, ToStr(n)>> : p \in {"out", "x"}, n \in Indices}
\* the listings of an output directory in any order, with up to MaxIdx + 2
\* files
AnyOrderListings == {q \in SeqsUpTo(PrefixedFiles, MaxIdx + 2) : NoDup(q)}
AnyOrderDirs == {[exists |-> TRUE, files |-> l] : l \in AnyOrderListings}

VARIABLES
    processor,       \* args.processor
    year,            \* args.year
    submit_missing,  \* args.submit_missing
    check_running,   \* args.check_running
    samples,         \* listdir(xrddir)
    condor_dir,      \* the files of condor/<processor>/<tag>/
    jdls,            \* those of them that end in ".jdl"
    parquet,         \* sample -> the directory <xrddir>/<sample>/parquet
    pickles,         \* sample -> the directory <xrddir>/<sample>/pickles
    jdl_dict,        \* sample -> number of jobs expected
    running_jobs,    \* names of the jobs in the queue
    missing_files,   \* jdl paths of the jobs to re-run
    err_files,       \* their log paths
    outs_parquet,    \* indices listed for the current sample
    outs_pickles,
    submitted,       \* the paths handed to condor_submit, in order
    log,             \* the messages printed
    queries,         \* the number of times condor_q was run
    pc, s, i

\* _process_samples of plotting.py
VARIABLES
    given,           \* the arguments of the call
    bg_keys,         \* the local lists and dicts of the same names
    bg_colours,
    bg_labels,
    sig_scale_dict,
    sig_labels,
    ppc              \* where the call is

vars == <<processor, year, submit_missing, check_running, samples, condor_dir, jdls,
          parquet, pickles, jdl_dict, running_jobs, missing_files, err_files, outs_parquet,
          outs_pickles, submitted, log, queries, pc, s, i,
          given, bg_keys, bg_colours, bg_labels, sig_scale_dict, sig_labels, ppc>>

plot == <<given, bg_keys, bg_colours, bg_labels, sig_scale_dict, sig_labels, ppc>>

args == <<processor, year, submit_missing, check_running>>
storage == <<samples, condor_dir, parquet, pickles>>

\* ---------------------------------------------------------- the script's tests
\* JdlMatches without the test of the year
JdlMatchesAnyYear(jdl, y, sample) ==
    /\ Len(jdl.stem) >= 2
    /\ SubSeq(jdl.stem, 2, Len(jdl.stem) - 1) = sample

\* line 65: jdl.split("_")[0] == args.year and "_".join(jdl.split("_")[1:-1]) == sample
\* (the first token of a one-token file name carries the extension)
JdlMatches(jdl, y, sample) ==
    /\ Len(jdl.stem) >= 2
    /\ jdl.stem[1] = y
    /\ SubSeq(jdl.stem, 2, Len(jdl.stem) - 1) = sample

\* lines 62-66: the indices of the directives of one sample
JdlIndices(files, y, sample) ==
    {ParseInt(Last(jdl.stem)) : jdl \in {f \in files : JdlMatches(f, y, sample)}}

\* np.sort(x)[-1]
SortedLast(x) == CHOOSE m \in x : \A n \in x : n <= m

\* lines 60-68
BuildJdlDict(files, y, listing) ==
    LET withJdl == {sample \in Range(listing) : JdlIndices(files, y, sample) # {}}
    IN  [sample \in withJdl |-> SortedLast(JdlIndices(files, y, sample)) + 1]

\* line 91: [s[:-4] for s in lines if s.endswith(".sh\n")]
RECURSIVE ParseRunning(_)
ParseRunning(lines) ==
    IF lines = <<>> THEN <<>>
    ELSE (IF Head(lines).ext = "sh" THEN <<Head(lines).stem>> ELSE <<>>)
         \o ParseRunning(Tail(lines))

\* ParseOuts that numbers the files of the listing by their place
ParseOutsByCount(listing) == [k \in DOMAIN listing |-> k - 1]

\* lines 123-125, 132-134: int(out.split(".")[0].split("_")[-1]) of every file listed
ParseOuts(listing) == [k \in DOMAIN listing |-> ParseInt(Last(listing[k]))]

\* `i in outs` on a list
InList(n, outs) == \E k \in DOMAIN outs : outs[k] = n

\* IsRunning that looks for a job name ending in <sample>_<i>
IsRunningBySuffix(y, sample, n, running) ==
    \E k \in DOMAIN running :
        /\ Len(running[k]) >= Len(sample) + 1
        /\ SubSeq(running[k], Len(running[k]) - Len(sample), Len(running[k]))
              = sample \o <<ToStr(n)>>

\* IsRunning with the year left out of the job name
IsRunningNoYear(y, sample, n, running) ==
    \E k \in DOMAIN running : running[k] = sample \o <<ToStr(n)>>

\* lines 109, 141: f"{args.year}_{sample}_{i}" in running_jobs
IsRunning(y, sample, n, running) == InList(JobName(y, sample, n), running)

\* line 103: Path(f"{xrddir}/{sample}/parquet").exists()
ParquetExists(sample) == sample \in DOMAIN parquet /\ parquet[sample].exists
\* line 128: Path(f"{xrddir}/{sample}/pickles").exists()
PicklesExists(sample) == sample \in DOMAIN pickles /\ pickles[sample].exists

\* line 101: the processor writes parquet files
NeedsParquet(proc) == proc # "trigger"

\* Incomplete that looks at the pickles only
IncompletePicklesOnly(n, proc, pkl, pqt) == \A k \in DOMAIN pkl : pkl[k] # n

\* line 140: i not in outs_pickles or (processor != "trigger" and i not in outs_parquet)
Incomplete(n, proc, pkl, pqt) ==
    \/ ~InList(n, pkl)
    \/ (NeedsParquet(proc) /\ ~InList(n, pqt))

Msg(m, sample, n) == [msg |-> m, sample |-> sample, i |-> n]

\* MissingMsgs that names the parquet only when the pickle is there (elif)
MissingMsgsFirstOnly(sample, n, proc, pkl, pqt) ==
    IF ~InList(n, pkl) THEN <<Msg("missing pickle", sample, n)>>
    ELSE IF NeedsParquet(proc) /\ ~InList(n, pqt)
         THEN <<Msg("missing parquet", sample, n)>> ELSE <<>>

\* lines 145-149: the messages naming the missing artifacts
MissingMsgs(sample, n, proc, pkl, pqt) ==
    (IF ~InList(n, pkl) THEN <<Msg("missing pickle", sample, n)>> ELSE <<>>)
    \o (IF NeedsParquet(proc) /\ ~InList(n, pqt)
        THEN <<Msg("missing parquet", sample, n)>> ELSE <<>>)

cur == samples[s]

\* ------------------------------------------------------------------ Init
\* Storage holds one sample with any listings, or several samples each of
\* whose directories is absent, empty or complete.  The submission directory
\* holds the logs directory and up to MaxJdls directives of the year.
StorageOK ==
    /\ samples \in DirListings(Names)
    /\ \E d \in SUBSET JdlFiles :
          /\ Cardinality(d) <= MaxJdls
          /\ condor_dir = d \cup {LogsDir}
    /\ parquet \in [Range(samples) -> IF Len(samples) = 1 THEN DirStates ELSE PlainDirStates]
    /\ pickles \in [Range(samples) -> IF Len(samples) = 1 THEN DirStates ELSE PlainDirStates]

\* check_jobs.py does not call _process_samples
PlotIdle ==
    /\ given = <<>>
    /\ bg_keys = <<>>
    /\ bg_colours = <<>>
    /\ bg_labels = <<>>
    /\ sig_scale_dict = <<>>
    /\ sig_labels = <<>>
    /\ ppc = "idle"

Fresh ==
    /\ jdls = {}
    /\ jdl_dict = <<>>
    /\ running_jobs = <<>>
    /\ missing_files = <<>>
    /\ err_files = <<>>
    /\ outs_parquet = <<>>
    /\ outs_pickles = <<>>
    /\ submitted = <<>>
    /\ log = <<>>
    /\ queries = 0
    /\ pc = "start"
    /\ s = 1
    /\ i = 0

Init ==
    /\ processor \in Processors
    /\ year = RunYear
    /\ submit_missing \in BOOLEAN
    /\ check_running \in BOOLEAN
    /\ StorageOK
    /\ Fresh
    /\ PlotIdle

\* The submission directory in full variety, for the derivation of jdl_dict.
InitJdl ==
    /\ processor = "skimmer"
    /\ year \in Years
    /\ submit_missing = FALSE
    /\ check_running = FALSE
    /\ samples \in DirListings(DirectiveNames)
    /\ condor_dir \in {d \in SUBSET AllCondorFiles : Cardinality(d) <= MaxJdls + 1}
    /\ parquet = [n \in Range(samples) |-> NoDir]
    /\ pickles = [n \in Range(samples) |-> NoDir]
    /\ Fresh
    /\ PlotIdle

\* One sample with all its directives, whose output directories list files in
\* any order and may list an index twice.
InitAnyOrder ==
    /\ processor \in Processors
    /\ year = RunYear
    /\ submit_missing = FALSE
    /\ check_running = FALSE
    /\ samples = <<<<"a">>>>
    /\ condor_dir = {[stem |-> JobName(RunYear, <<"a">>, k), ext |-> "jdl"] : k \in Indices}
                        \cup {LogsDir}
    /\ pickles \in [Range(samples) -> AnyOrderDirs]
    /\ parquet \in [Range(samples) -> IF NeedsParquet(processor) THEN AnyOrderDirs ELSE {NoDir}]
    /\ Fresh
    /\ PlotIdle

\* A submission directory that holds directives of index -1, so that expected
\* counts of 0 occur.
InitZero ==
    /\ processor \in Processors
    /\ year = RunYear
    /\ submit_missing \in BOOLEAN
    /\ check_running \in BOOLEAN
    /\ samples \in DirListings(Names)
    /\ \E z \in SUBSET MinusOneFiles, d \in SUBSET JdlFiles :
          /\ z # {}
          /\ Cardinality(d) <= MaxJdls - 1
          /\ condor_dir = z \cup d \cup {LogsDir}
    /\ parquet \in [Range(samples) -> PlainDirStates]
    /\ pickles \in [Range(samples) -> PlainDirStates]
    /\ Fresh
    /\ PlotIdle

\* --------------------------------------------------------------- actions
\* ReadDirectives that adds to the samples one that only the directives name
ReadDirectivesAddsSample ==
    /\ pc = "start"
    /\ jdls' = {f \in condor_dir : f.ext = "jdl"}
    /\ LET named == {n \in Names \ Range(samples) : JdlIndices(jdls', year, n) # {}}
       IN  samples' = IF named = {} THEN samples
                      ELSE Append(samples, CHOOSE n \in named : TRUE)
    /\ jdl_dict' = BuildJdlDict(jdls', year, samples')
    /\ pc' = "queue"
    /\ UNCHANGED <<plot, args, condor_dir, parquet, pickles, queries, running_jobs, missing_files,
                   err_files, outs_parquet, outs_pickles, submitted, log, s, i>>

\* lines 57-68
ReadDirectives ==
    /\ pc = "start"
    /\ jdls' = {f \in condor_dir : f.ext = "jdl"}
    /\ jdl_dict' = BuildJdlDict(jdls', year, samples)
    /\ pc' = "queue"
    /\ UNCHANGED <<plot, args, storage, queries, running_jobs, missing_files, err_files, outs_parquet,
                   outs_pickles, submitted, log, s, i>>

\* lines 85-91, args.check_running set: the queue is read once
QueryRunning ==
    /\ pc = "queue"
    /\ check_running
    /\ \E lines \in Queues(year) :
          running_jobs' = ParseRunning(lines)
    /\ queries' = queries + 1
    /\ pc' = "sample"
    /\ UNCHANGED <<plot, args, storage, jdls, jdl_dict, missing_files, err_files, outs_parquet,
                   outs_pickles, submitted, log, s, i>>

\* lines 85-86, args.check_running not set
SkipRunning ==
    /\ pc = "queue"
    /\ ~check_running
    /\ pc' = "sample"
    /\ UNCHANGED <<plot, args, storage, queries, jdls, jdl_dict, running_jobs, missing_files, err_files,
                   outs_parquet, outs_pickles, submitted, log, s, i>>

\* lines 101-106: no parquet directory and no directive of the sample
AbsentNoJdl ==
    /\ pc = "sample"
    /\ s <= Len(samples)
    /\ NeedsParquet(processor)
    /\ ~ParquetExists(cur)
    /\ cur \notin DOMAIN jdl_dict
    /\ log' = Append(log, Msg("no parquet directory", cur, 0))
    /\ s' = s + 1
    /\ UNCHANGED <<plot, args, storage, queries, jdls, jdl_dict, running_jobs, missing_files, err_files,
                   outs_parquet, outs_pickles, submitted, pc, i>>

\* AbsentEnter with the range started at 1
AbsentEnterFromOne ==
    /\ pc = "sample"
    /\ s <= Len(samples)
    /\ processor # "trigger"
    /\ ~parquet[samples[s]].exists
    /\ samples[s] \in DOMAIN jdl_dict
    /\ log' = Append(log, [msg |-> "no parquet directory", sample |-> samples[s], i |-> 0])
    /\ i' = 1
    /\ pc' = "absent"
    /\ UNCHANGED <<plot, args, storage, queries, jdls, jdl_dict, running_jobs, missing_files, err_files,
                   outs_parquet, outs_pickles, submitted, s>>

\* lines 101-108: no parquet directory, every job of the sample is looked at
AbsentEnter ==
    /\ pc = "sample"
    /\ s <= Len(samples)
    /\ NeedsParquet(processor)
    /\ ~ParquetExists(cur)
    /\ cur \in DOMAIN jdl_dict
    /\ log' = Append(log, Msg("no parquet directory", cur, 0))
    /\ i' = 0
    /\ pc' = "absent"
    /\ UNCHANGED <<plot, args, storage, queries, jdls, jdl_dict, running_jobs, missing_files, err_files,
                   outs_parquet, outs_pickles, submitted, s>>

\* lines 108-111
AbsentRunning ==
    /\ pc = "absent"
    /\ i < jdl_dict[cur]
    /\ IsRunning(year, cur, i, running_jobs)
    /\ log' = Append(log, Msg("running", cur, i))
    /\ i' = i + 1
    /\ UNCHANGED <<plot, args, storage, queries, jdls, jdl_dict, running_jobs, missing_files, err_files,
                   outs_parquet, outs_pickles, submitted, pc, s>>

\* AbsentAppend that leaves the log path out
AbsentAppendNoLog ==
    /\ pc = "absent"
    /\ i < jdl_dict[cur]
    /\ ~IsRunning(year, cur, i, running_jobs)
    /\ missing_files' = Append(missing_files, JdlPath(processor, year, cur, i))
    /\ IF submit_missing
       THEN pc' = "absent_submit" /\ i' = i
       ELSE pc' = "absent" /\ i' = i + 1
    /\ UNCHANGED <<plot, args, storage, queries, jdls, jdl_dict, running_jobs, err_files,
                   outs_parquet, outs_pickles, submitted, log, s>>

\* AbsentAppend whose range includes the expected count itself
AbsentAppendInclusive ==
    /\ pc = "absent"
    /\ i <= jdl_dict[cur]
    /\ ~IsRunning(year, cur, i, running_jobs)
    /\ missing_files' = Append(missing_files, JdlPath(processor, year, cur, i))
    /\ err_files' = Append(err_files, ErrPath(processor, year, cur, i))
    /\ IF submit_missing
       THEN pc' = "absent_submit" /\ i' = i
       ELSE pc' = "absent" /\ i' = i + 1
    /\ UNCHANGED <<plot, args, storage, queries, jdls, jdl_dict, running_jobs, outs_parquet,
                   outs_pickles, submitted, log, s>>

\* lines 113-118
AbsentAppend ==
    /\ pc = "absent"
    /\ i < jdl_dict[cur]
    /\ ~IsRunning(year, cur, i, running_jobs)
    /\ missing_files' = Append(missing_files, JdlPath(processor, year, cur, i))
    /\ err_files' = Append(err_files, ErrPath(processor, year, cur, i))
    /\ IF submit_missing
       THEN pc' = "absent_submit" /\ i' = i
       ELSE pc' = "absent" /\ i' = i + 1
    /\ UNCHANGED <<plot, args, storage, queries, jdls, jdl_dict, running_jobs, outs_parquet,
                   outs_pickles, submitted, log, s>>

\* line 119: os.system(f"condor_submit {jdl_file}")
AbsentSubmit ==
    /\ pc = "absent_submit"
    /\ submitted' = Append(submitted, JdlPath(processor, year, cur, i))
    /\ i' = i + 1
    /\ pc' = "absent"
    /\ UNCHANGED <<plot, args, storage, queries, jdls, jdl_dict, running_jobs, missing_files, err_files,
                   outs_parquet, outs_pickles, log, s>>

\* AbsentEnd without the continue of line 121: the sample goes on into the
\* per-index check
AbsentEndFallsThrough ==
    /\ pc = "absent"
    /\ i >= jdl_dict[cur]
    /\ outs_parquet' = ParseOuts(parquet[cur].files)
    /\ outs_pickles' = ParseOuts(pickles[cur].files)
    /\ i' = 0
    /\ pc' = "check"
    /\ UNCHANGED <<plot, args, storage, queries, jdls, jdl_dict, running_jobs, missing_files, err_files,
                   submitted, log, s>>

\* lines 108, 121: the range is exhausted, next sample
AbsentEnd ==
    /\ pc = "absent"
    /\ i >= jdl_dict[cur]
    /\ s' = s + 1
    /\ pc' = "sample"
    /\ UNCHANGED <<plot, args, storage, queries, jdls, jdl_dict, running_jobs, missing_files, err_files,
                   outs_parquet, outs_pickles, submitted, log, i>>

\* ReadParquet that keeps the listing of an earlier sample once it has one
ReadParquetStale(sample) ==
    IF NeedsParquet(processor) /\ outs_parquet = <<>>
    THEN ParseOuts(parquet[sample].files) ELSE outs_parquet

\* lines 123-125: the parquet listing is read when the processor writes parquet
ReadParquet(sample) ==
    IF NeedsParquet(processor) THEN ParseOuts(parquet[sample].files) ELSE outs_parquet

\* lines 101-130: the parquet directory is there (or not needed), the pickles
\* directory is not
PicklesAbsent ==
    /\ pc = "sample"
    /\ s <= Len(samples)
    /\ NeedsParquet(processor) => ParquetExists(cur)
    /\ ~PicklesExists(cur)
    /\ outs_parquet' = ReadParquet(cur)
    /\ log' = Append(log, Msg("no pickles directory", cur, 0))
    /\ s' = s + 1
    /\ UNCHANGED <<plot, args, storage, queries, jdls, jdl_dict, running_jobs, missing_files, err_files,
                   outs_pickles, submitted, pc, i>>

\* lines 101-139: both listings are read and the sample has directives
CheckEnter ==
    /\ pc = "sample"
    /\ s <= Len(samples)
    /\ NeedsParquet(processor) => ParquetExists(cur)
    /\ PicklesExists(cur)
    /\ cur \in DOMAIN jdl_dict
    /\ outs_parquet' = ReadParquet(cur)
    /\ outs_pickles' = ParseOuts(pickles[cur].files)
    /\ i' = 0
    /\ pc' = "check"
    /\ UNCHANGED <<plot, args, storage, queries, jdls, jdl_dict, running_jobs, missing_files, err_files,
                   submitted, log, s>>

\* line 139: jdl_dict[sample] of a sample without directives raises KeyError
CheckKeyError ==
    /\ pc = "sample"
    /\ s <= Len(samples)
    /\ NeedsParquet(processor) => ParquetExists(cur)
    /\ PicklesExists(cur)
    /\ cur \notin DOMAIN jdl_dict
    /\ outs_parquet' = ReadParquet(cur)
    /\ outs_pickles' = ParseOuts(pickles[cur].files)
    /\ pc' = "aborted"
    /\ UNCHANGED <<plot, args, storage, queries, jdls, jdl_dict, running_jobs, missing_files, err_files,
                   submitted, log, s, i>>

\* lines 139-140: the outputs of job i are all there
CheckComplete ==
    /\ pc = "check"
    /\ i < jdl_dict[cur]
    /\ ~Incomplete(i, processor, outs_pickles, outs_parquet)
    /\ i' = i + 1
    /\ UNCHANGED <<plot, args, storage, queries, jdls, jdl_dict, running_jobs, missing_files, err_files,
                   outs_parquet, outs_pickles, submitted, log, pc, s>>

\* lines 140-143
CheckRunning ==
    /\ pc = "check"
    /\ i < jdl_dict[cur]
    /\ Incomplete(i, processor, outs_pickles, outs_parquet)
    /\ IsRunning(year, cur, i, running_jobs)
    /\ log' = Append(log, Msg("running", cur, i))
    /\ i' = i + 1
    /\ UNCHANGED <<plot, args, storage, queries, jdls, jdl_dict, running_jobs, missing_files, err_files,
                   outs_parquet, outs_pickles, submitted, pc, s>>

\* CheckAppend that puts the new entry at the head of the two lists
CheckAppendAtHead ==
    /\ pc = "check"
    /\ i < jdl_dict[cur]
    /\ Incomplete(i, processor, outs_pickles, outs_parquet)
    /\ ~IsRunning(year, cur, i, running_jobs)
    /\ log' = log \o MissingMsgs(cur, i, processor, outs_pickles, outs_parquet)
    /\ missing_files' = <<JdlPath(processor, year, cur, i)>> \o missing_files
    /\ err_files' = <<ErrPath(processor, year, cur, i)>> \o err_files
    /\ IF submit_missing
       THEN pc' = "check_submit" /\ i' = i
       ELSE pc' = "check" /\ i' = i + 1
    /\ UNCHANGED <<plot, args, storage, queries, jdls, jdl_dict, running_jobs, outs_parquet,
                   outs_pickles, submitted, s>>

\* CheckAppend that resubmits whatever args.submit_missing is
CheckAppendAlwaysSubmits ==
    /\ pc = "check"
    /\ i < jdl_dict[samples[s]]
    /\ \/ \A k \in DOMAIN outs_pickles : outs_pickles[k] # i
       \/ processor # "trigger" /\ \A k \in DOMAIN outs_parquet : outs_parquet[k] # i
    /\ (<<year>> \o samples[s] \o <<ToStr(i)>>) \notin Range(running_jobs)
    /\ log' = log \o MissingMsgs(samples[s], i, processor, outs_pickles, outs_parquet)
    /\ missing_files' = Append(missing_files, JdlPath(processor, year, samples[s], i))
    /\ err_files' = Append(err_files, ErrPath(processor, year, samples[s], i))
    /\ pc' = "check_submit"
    /\ i' = i
    /\ UNCHANGED <<plot, args, storage, queries, jdls, jdl_dict, running_jobs, outs_parquet,
                   outs_pickles, submitted, s>>

\* lines 140-155
CheckAppend ==
    /\ pc = "check"
    /\ i < jdl_dict[cur]
    /\ Incomplete(i, processor, outs_pickles, outs_parquet)
    /\ ~IsRunning(year, cur, i, running_jobs)
    /\ log' = log \o MissingMsgs(cur, i, processor, outs_pickles, outs_parquet)
    /\ missing_files' = Append(missing_files, JdlPath(processor, year, cur, i))
    /\ err_files' = Append(err_files, ErrPath(processor, year, cur, i))
    /\ IF submit_missing
       THEN pc' = "check_submit" /\ i' = i
       ELSE pc' = "check" /\ i' = i + 1
    /\ UNCHANGED <<plot, args, storage, queries, jdls, jdl_dict, running_jobs, outs_parquet,
                   outs_pickles, submitted, s>>

\* CheckSubmit that runs no condor_submit
CheckSubmitDropped ==
    /\ pc = "check_submit"
    /\ i' = i + 1
    /\ pc' = "check"
    /\ UNCHANGED <<plot, args, storage, queries, jdls, jdl_dict, running_jobs, missing_files, err_files,
                   outs_parquet, outs_pickles, submitted, log, s>>

\* line 156: os.system(f"condor_submit {jdl_file}")
CheckSubmit ==
    /\ pc = "check_submit"
    /\ submitted' = Append(submitted, JdlPath(processor, year, cur, i))
    /\ i' = i + 1
    /\ pc' = "check"
    /\ UNCHANGED <<plot, args, storage, queries, jdls, jdl_dict, running_jobs, missing_files, err_files,
                   outs_parquet, outs_pickles, log, s>>

\* line 139: the range is exhausted, next sample
CheckEnd ==
    /\ pc = "check"
    /\ i >= jdl_dict[cur]
    /\ s' = s + 1
    /\ pc' = "sample"
    /\ UNCHANGED <<plot, args, storage, queries, jdls, jdl_dict, running_jobs, missing_files, err_files,
                   outs_parquet, outs_pickles, submitted, log, i>>

\* lines 159-165: every sample was looked at, the lists are printed
PrintReport ==
    /\ pc = "sample"
    /\ s > Len(samples)
    /\ pc' = "done"
    /\ UNCHANGED <<plot, args, storage, queries, jdls, jdl_dict, running_jobs, missing_files, err_files,
                   outs_parquet, outs_pickles, submitted, log, s, i>>

Next ==
    \/ ReadDirectives
    \/ QueryRunning
    \/ SkipRunning
    \/ AbsentNoJdl
    \/ AbsentEnter
    \/ AbsentRunning
    \/ AbsentAppend
    \/ AbsentSubmit
    \/ AbsentEnd
    \/ PicklesAbsent
    \/ CheckEnter
    \/ CheckKeyError
    \/ CheckComplete
    \/ CheckRunning
    \/ CheckAppend
    \/ CheckSubmit
    \/ CheckEnd
    \/ PrintReport

Spec == Init /\ [][Next]_vars

NextJdl == ReadDirectives

SpecJdl == InitJdl /\ [][NextJdl]_vars

\* the steps of a run whose directories all exist and that neither asks the
\* queue nor resubmits
NextAnyOrder ==
    \/ ReadDirectives
    \/ SkipRunning
    \/ CheckEnter
    \/ CheckComplete
    \/ CheckAppend
    \/ CheckEnd
    \/ PrintReport

SpecAnyOrder == InitAnyOrder /\ [][NextAnyOrder]_vars

SpecZero == InitZero /\ [][Next]_vars

\* --------------------------------------------- plotting.py: _process_samples
\* the sample names of the calls: backgrounds, signals, and a signal whose
\* name is that of hh4b shifted up by the systematic
BgNames == {<<"QCD">>, <<"TT">>}
WShift == "pileup"
SigNames == {<<"hh4b">>, <<"vbfhh4b">>, <<"hh4b", WShift, "up">>}

\* lines 53-75: COLOURS, for the colour names of the calls
COLOURS == [c \in {"darkblue", "brown"} |-> IF c = "darkblue" THEN "#3f90da" ELSE "#a96b59"]

\* the sample_label_map of the calls: it names some of the samples
sample_label_map == (<<"QCD">> :> <<"Multijet">>) @@ (<<"hh4b">> :> <<"HH4b">>)

\* an optional argument: <<>> is None, <<x>> is the value x
None == <<>>
Some(x) == <<x>>

\* dicts in insertion order
Entry(key, val) == [key |-> key, val |-> val]
Keys(d) == [k \in DOMAIN d |-> d[k].key]
HasKey(d, key) == \E k \in DOMAIN d : d[k].key = key
Get(d, key) == d[CHOOSE k \in DOMAIN d : d[k].key = key].val
\* d[key] = val
Put(d, key, val) ==
    IF HasKey(d, key)
    THEN [k \in DOMAIN d |-> IF d[k].key = key THEN Entry(key, val) ELSE d[k]]
    ELSE Append(d, Entry(key, val))
\* del d[key]
RECURSIVE Del(_, _)
Del(d, key) ==
    IF d = <<>> THEN <<>>
    ELSE (IF Head(d).key = key THEN <<>> ELSE <<Head(d)>>) \o Del(Tail(d), key)
\* [x for x in q if x in S]
RECURSIVE Filter(_, _)
Filter(q, S) ==
    IF q = <<>> THEN <<>>
    ELSE (IF Head(q) \in S THEN <<Head(q)>> ELSE <<>>) \o Filter(Tail(q), S)

\* the arguments of the calls
BgOrders == SeqsUpTo(BgNames, MaxKeys)
BgKeyLists == {<<>>, <<<<"QCD">>>>, <<<<"TT">>>>, <<<<"TT">>, <<"QCD">>>>}
BgColourMaps ==
    {(<<"QCD">> :> "darkblue") @@ (<<"TT">> :> "brown"), (<<"QCD">> :> "darkblue")}
SigKeyLists == {q \in SeqsUpTo(SigNames, MaxKeys) : NoDup(q)}
ScaleMaps ==
    {[n \in SigNames |-> 1],
     [n \in SigNames |-> IF n = <<"hh4b">> THEN 10 ELSE IF n = <<"vbfhh4b">> THEN 20000 ELSE 1]}
ScaleDicts ==
    {[k \in DOMAIN q |-> Entry(q[k], f[q[k]])] :
        q \in {r \in SigKeyLists : Len(r) = MaxKeys}, f \in ScaleMaps}
Systs == {[wshift |-> WShift, wsamples |-> w] : w \in SUBSET {<<"QCD">>, <<"hh4b">>}}
SystAndVariation ==
    {<<None, "up">>} \cup {<<Some(sy), v>> : sy \in Systs, v \in {"None", "up", "down"}}

script == <<args, storage, jdls, jdl_dict, running_jobs, missing_files, err_files,
            outs_parquet, outs_pickles, submitted, log, queries, pc, s, i>>

\* A call of _process_samples; check_jobs.py is not run.
InitPlot ==
    /\ processor = "skimmer"
    /\ year = RunYear
    /\ submit_missing = FALSE
    /\ check_running = FALSE
    /\ samples = <<>>
    /\ condor_dir = {}
    /\ parquet = <<>>
    /\ pickles = <<>>
    /\ Fresh
    /\ \E bo \in BgOrders, bk \in BgKeyLists, bc \in BgColourMaps, sk \in SigKeyLists,
          sd \in {None} \cup {Some(d) : d \in ScaleDicts}, sv \in SystAndVariation :
          given = [sig_keys |-> sk, bg_keys |-> bk, bg_colours |-> bc, sig_scale_dict |-> sd,
                   bg_order |-> bo, syst |-> sv[1], variation |-> sv[2]]
    /\ bg_keys = <<>>
    /\ bg_colours = <<>>
    /\ bg_labels = <<>>
    /\ sig_scale_dict = <<>>
    /\ sig_labels = <<>>
    /\ ppc = "backgrounds"

\* sample_label_map.get(key, key)
LabelOf(key) == IF key \in DOMAIN sample_label_map THEN sample_label_map[key] ELSE key

\* line 176
FilterBgKeys == Filter(given.bg_order, Range(given.bg_keys))

\* SetUpBackgrounds that takes the colours in the order of the bg_keys given
SetUpBackgroundsGivenOrder ==
    /\ ppc = "backgrounds"
    /\ Range(FilterBgKeys) \subseteq DOMAIN given.bg_colours
    /\ bg_keys' = FilterBgKeys
    /\ LET listed == Filter(given.bg_keys, Range(given.bg_order))
       IN  bg_colours' = [k \in DOMAIN listed |-> COLOURS[given.bg_colours[listed[k]]]]
    /\ bg_labels' = [k \in DOMAIN bg_keys' |-> LabelOf(bg_keys'[k])]
    /\ ppc' = "scales"
    /\ UNCHANGED <<script, given, sig_scale_dict, sig_labels>>

\* lines 176-178
SetUpBackgrounds ==
    /\ ppc = "backgrounds"
    /\ Range(FilterBgKeys) \subseteq DOMAIN given.bg_colours
    /\ bg_keys' = FilterBgKeys
    /\ bg_colours' = [k \in DOMAIN bg_keys' |-> COLOURS[given.bg_colours[bg_keys'[k]]]]
    /\ bg_labels' = [k \in DOMAIN bg_keys' |-> LabelOf(bg_keys'[k])]
    /\ ppc' = "scales"
    /\ UNCHANGED <<script, given, sig_scale_dict, sig_labels>>

\* line 177: bg_colours[sample] of a sample without colour raises KeyError
ColourKeyError ==
    /\ ppc = "backgrounds"
    /\ ~(Range(FilterBgKeys) \subseteq DOMAIN given.bg_colours)
    /\ bg_keys' = FilterBgKeys
    /\ ppc' = "raised"
    /\ UNCHANGED <<script, given, bg_colours, bg_labels, sig_scale_dict, sig_labels>>

\* OrderedDict([(sig_key, 1.0) for sig_key in sig_keys])
RECURSIVE UnitScales(_)
UnitScales(keys) ==
    IF keys = <<>> THEN <<>>
    ELSE Put(UnitScales(SubSeq(keys, 1, Len(keys) - 1)), keys[Len(keys)], 1)

\* {key: val for key, val in sig_scale_dict.items() if key in sig_keys}
RECURSIVE FilterDict(_, _)
FilterDict(d, S) ==
    IF d = <<>> THEN <<>>
    ELSE (IF Head(d).key \in S THEN <<Head(d)>> ELSE <<>>) \o FilterDict(Tail(d), S)

\* lines 180-183
SetUpScales ==
    /\ ppc = "scales"
    /\ sig_scale_dict' =
          IF given.sig_scale_dict = None THEN UnitScales(given.sig_keys)
          ELSE FilterDict(given.sig_scale_dict[1], Range(given.sig_keys))
    /\ ppc' = "labels"
    /\ UNCHANGED <<script, given, bg_keys, bg_colours, bg_labels, sig_labels>>

\* f"{sig_scale:.0f}" and f"{sig_scale:.1e}" of the scales of the calls, 10 and
\* 20000
ScaleText(v) == IF v <= 10000 THEN "10" ELSE "2.0e+04"

\* lines 187-193
SigLabel(key, scale) ==
    IF scale # 1 THEN LabelOf(key) \o <<"$\\times$", ScaleText(scale)>> ELSE LabelOf(key)

\* lines 185-195
SetUpLabels ==
    /\ ppc = "labels"
    /\ sig_labels' = [k \in DOMAIN sig_scale_dict |->
                         Entry(sig_scale_dict[k].key,
                               SigLabel(sig_scale_dict[k].key, sig_scale_dict[k].val))]
    /\ ppc' = "syst"
    /\ UNCHANGED <<script, given, bg_keys, bg_colours, bg_labels, sig_scale_dict>>

\* line 198
HasSyst == given.syst # None /\ given.variation # "None"
\* line 201
SKey(shift) == IF shift = "up" THEN " Up" ELSE " Down"
\* f"{key}_{wshift}_{shift}"
Shifted(key) == key \o <<given.syst[1].wshift, given.variation>>

\* line 198 is false: return
ReturnPlain ==
    /\ ppc = "syst"
    /\ ~HasSyst
    /\ ppc' = "returned"
    /\ UNCHANGED <<script, given, bg_keys, bg_colours, bg_labels, sig_scale_dict, sig_labels>>

\* lines 198-206
RenameBackgrounds ==
    /\ ppc = "syst"
    /\ HasSyst
    /\ bg_keys' = [k \in DOMAIN bg_keys |->
                      IF bg_keys[k] \in given.syst[1].wsamples
                      THEN Shifted(bg_keys[k]) ELSE bg_keys[k]]
    /\ bg_labels' = [k \in DOMAIN bg_labels |->
                        IF bg_keys[k] \in given.syst[1].wsamples
                        THEN Append(bg_labels[k], SKey(given.variation)) ELSE bg_labels[k]]
    /\ ppc' = "syst_sig"
    /\ UNCHANGED <<script, given, bg_colours, sig_scale_dict, sig_labels>>

\* lines 208-213, over the keys the dict had before the loop
RECURSIVE RenameLoop(_, _, _)
RenameLoop(todo, sd, sl) ==
    IF todo = <<>> THEN [scale |-> sd, labels |-> sl]
    ELSE LET sig_key == Head(todo) IN
         IF sig_key \in given.syst[1].wsamples
         THEN LET new_key == Shifted(sig_key)
                  sd1 == Put(sd, new_key, Get(sd, sig_key))
                  sl1 == Put(sl, new_key, Append(Get(sl, sig_key), SKey(given.variation)))
              IN  RenameLoop(Tail(todo), Del(sd1, sig_key), Del(sl1, sig_key))
         ELSE RenameLoop(Tail(todo), sd, sl)

\* lines 208-215
RenameSignals ==
    /\ ppc = "syst_sig"
    /\ LET out == RenameLoop(Keys(sig_scale_dict), sig_scale_dict, sig_labels)
       IN  /\ sig_scale_dict' = out.scale
           /\ sig_labels' = out.labels
    /\ ppc' = "returned"
    /\ UNCHANGED <<script, given, bg_keys, bg_colours, bg_labels>>

NextPlot ==
    \/ SetUpBackgrounds
    \/ ColourKeyError
    \/ SetUpScales
    \/ SetUpLabels
    \/ ReturnPlain
    \/ RenameBackgrounds
    \/ RenameSignals

SpecPlot == InitPlot /\ [][NextPlot]_vars

\* ------------------------------------------------- vocabulary of the claims
\* the missing-job report is the list that is printed when the loop is over
ReportPrinted == pc = "done"
Terminated == pc \in {"done", "aborted"}

\* the report has an entry for job n of the sample
Reported(sample, n) ==
    \E k \in DOMAIN missing_files : missing_files[k].stem = <<year>> \o sample \o <<ToStr(n)>>
\* condor_submit was run for job n of the sample
Resubmitted(sample, n) ==
    \E k \in DOMAIN submitted : submitted[k].stem = <<year>> \o sample \o <<ToStr(n)>>
\* the report entries of one sample
EntriesOf(sample) ==
    {k \in DOMAIN missing_files :
        \E n \in 0..9 : missing_files[k].stem = <<year>> \o sample \o <<ToStr(n)>>}

HasExpected(sample) == sample \in DOMAIN jdl_dict
\* produced_primary[sample] and produced_secondary[sample]
Primary(sample) == {ParseInt(f[Len(f)]) : f \in Range(pickles[sample].files)}
Secondary(sample) == {ParseInt(f[Len(f)]) : f \in Range(parquet[sample].files)}
SecondaryRequired == processor # "trigger"
\* (year, sample, n) is in running_jobs
InQueue(sample, n) == (<<year>> \o sample \o <<ToStr(n)>>) \in Range(running_jobs)
Complete(sample, n) ==
    /\ n \in Primary(sample)
    /\ SecondaryRequired => n \in Secondary(sample)

\* ----------------------------------------------------------------- claims
\* C1 (as claimed): when the report is printed, every index below the expected
\* count of a listed sample is complete, running or reported, and a reported
\* index is neither complete nor running.
C1_Completeness ==
    ReportPrinted =>
        \A sample \in Range(samples) \cap DOMAIN jdl_dict :
            \A n \in 0..(jdl_dict[sample] - 1) :
                /\ Complete(sample, n) \/ InQueue(sample, n) \/ Reported(sample, n)
                /\ Reported(sample, n) => ~Complete(sample, n) /\ ~InQueue(sample, n)

\* C2: at every point of the run, no job that is in running_jobs has an entry
\* in the missing-job list, and none has been resubmitted.
C2_RunningSuppressed ==
    /\ \A k \in DOMAIN missing_files : missing_files[k].stem \notin Range(running_jobs)
    /\ \A k \in DOMAIN submitted : submitted[k].stem \notin Range(running_jobs)

\* C2 witness: the report was printed with entries, and an incomplete job of
\* a sample whose pickles directory exists was left out because it is running.
C2_Witness ==
    /\ ReportPrinted
    /\ \E sample \in Range(samples) \cap DOMAIN jdl_dict :
          \E n \in 0..(jdl_dict[sample] - 1) :
              /\ InQueue(sample, n)
              /\ ~Complete(sample, n)
              /\ pickles[sample].exists
              /\ missing_files # <<>>

\* C3: when the directories the check needs exist, the printed report has an
\* entry for (sample, n) exactly when n is below the expected count, the job is
\* not running and one of its required outputs is not listed.
C3_ReportCondition ==
    ReportPrinted =>
        \A sample \in Range(samples) :
            (pickles[sample].exists /\ (SecondaryRequired => parquet[sample].exists)) =>
                \A n \in 0..(MaxIdx + 1) :
                    Reported(sample, n) <=>
                        /\ HasExpected(sample)
                        /\ n < jdl_dict[sample]
                        /\ ~InQueue(sample, n)
                        /\ \/ n \notin Primary(sample)
                           \/ SecondaryRequired /\ n \notin Secondary(sample)

\* C3 witness: the example of the specification for a batch of two jobs:
\* primary {0}, secondary {0, 1}, nothing running, and the report is the one
\* entry for index 1.
C3_Witness ==
    /\ ReportPrinted
    /\ SecondaryRequired
    /\ running_jobs = <<>>
    /\ \E sample \in Range(samples) \cap DOMAIN jdl_dict :
          /\ jdl_dict[sample] = 2
          /\ pickles[sample].exists /\ parquet[sample].exists
          /\ Primary(sample) = {0}
          /\ Secondary(sample) = {0, 1}
          /\ Len(missing_files) = 1
          /\ missing_files[1].stem = <<year>> \o sample \o <<"1">>

\* C4 (as claimed): a sample whose pickles directory is absent, while the
\* parquet directory exists or is not needed, has every job that is not
\* running in the printed report, and resubmitted when that is enabled.
C4_PrimaryAbsentReported ==
    ReportPrinted =>
        \A sample \in Range(samples) \cap DOMAIN jdl_dict :
            (~pickles[sample].exists /\ (SecondaryRequired => parquet[sample].exists)) =>
                \A n \in 0..(jdl_dict[sample] - 1) :
                    ~InQueue(sample, n) =>
                        /\ Reported(sample, n)
                        /\ submit_missing => Resubmitted(sample, n)

\* C5: when parquet files are required and the parquet directory of a sample
\* with expected count N is absent, the printed report has exactly one entry
\* for each of its indices below N that is not running and no other entry of
\* the sample, whatever the pickles directory holds, and no message about the
\* pickles of the sample was printed.
C5_DirectoryAbsent ==
    ReportPrinted /\ SecondaryRequired =>
        \A sample \in Range(samples) \cap DOMAIN jdl_dict :
            ~parquet[sample].exists =>
                /\ \A n \in 0..(MaxIdx + 1) :
                      Reported(sample, n) <=> n < jdl_dict[sample] /\ ~InQueue(sample, n)
                /\ Cardinality(EntriesOf(sample)) =
                      Cardinality({n \in 0..(jdl_dict[sample] - 1) : ~InQueue(sample, n)})
                /\ \A k \in DOMAIN log :
                      log[k].sample = sample =>
                          log[k].msg \in {"no parquet directory", "running"}

\* C5 witness: the parquet directory is absent, the pickles directory lists an
\* output, one of the two jobs is running and the report has the other one.
C5_Witness ==
    /\ ReportPrinted
    /\ SecondaryRequired
    /\ \E sample \in Range(samples) \cap DOMAIN jdl_dict :
          /\ ~parquet[sample].exists
          /\ pickles[sample].exists /\ Primary(sample) # {}
          /\ jdl_dict[sample] = 2
          /\ \E n \in 0..1 : InQueue(sample, n)
          /\ Cardinality(EntriesOf(sample)) = 1

\* C6 (as claimed): a listed sample without an expected count never aborts the
\* run.
C6_NoAbort == pc # "aborted"

\* C7 (as claimed): with the trigger processor the printed report has an entry
\* for (sample, n) exactly when n is below the expected count, the job is not
\* running and n is not among the primary outputs, whatever the parquet
\* directory is.
C7_PrimaryAlone ==
    ReportPrinted /\ processor = "trigger" =>
        \A sample \in Range(samples) :
            \A n \in 0..(MaxIdx + 1) :
                Reported(sample, n) <=>
                    /\ HasExpected(sample)
                    /\ n < jdl_dict[sample]
                    /\ ~InQueue(sample, n)
                    /\ n \notin Primary(sample)

\* C8: once the directives are read, a listed sample has an expected count
\* exactly when some directive <year>_<sample>_<index>.jdl of the given year
\* and of exactly that sample exists, the count is the largest such index plus
\* one, and no other sample has a count.
DirectiveIndices(sample) ==
    {ParseInt(f.stem[Len(f.stem)]) :
        f \in {g \in condor_dir :
                 /\ g.ext = "jdl"
                 /\ \E tok \in IndexTokens : g.stem = <<year>> \o sample \o <<tok>>}}
C8_ExpectedCount ==
    pc # "start" =>
        /\ DOMAIN jdl_dict \subseteq Range(samples)
        /\ \A sample \in Range(samples) :
              IF DirectiveIndices(sample) = {}
              THEN sample \notin DOMAIN jdl_dict
              ELSE /\ sample \in DOMAIN jdl_dict
                   /\ jdl_dict[sample] - 1 \in DirectiveIndices(sample)
                   /\ \A n \in DirectiveIndices(sample) : n < jdl_dict[sample]

\* C8 witness: a sample got its count although the directory also holds a
\* directive of another year with a larger index and one of a sample whose
\* name shares a token with it.
C8_Witness ==
    /\ pc # "start"
    /\ \E sample \in DOMAIN jdl_dict :
          /\ jdl_dict[sample] = 1
          /\ \E f \in condor_dir :
                /\ f.ext = "jdl" /\ Len(f.stem) >= 3
                /\ f.stem[1] # year
                /\ SubSeq(f.stem, 2, Len(f.stem) - 1) = sample
                /\ f.stem[Len(f.stem)] = "1"
          /\ \E f \in condor_dir :
                /\ f.ext = "jdl" /\ Len(f.stem) >= 3
                /\ f.stem[1] = year
                /\ SubSeq(f.stem, 2, Len(f.stem) - 1) # sample
                /\ f.stem[Len(f.stem)] = "1"

\* C9 (as claimed): nothing is resubmitted before the report list is complete.
C9_Separation == submitted # <<>> => ReportPrinted

\* C9 (amended): resubmission happens inside the loop: when submit-missing is
\* set, every entry is resubmitted right after it is appended, so the
\* resubmitted paths are the report list so far, short of its last entry only
\* between an append and its condor_submit.
C9_InlineResubmission ==
    submit_missing =>
        IF pc \in {"absent_submit", "check_submit"}
        THEN /\ missing_files # <<>>
             /\ submitted = SubSeq(missing_files, 1, Len(missing_files) - 1)
        ELSE submitted = missing_files

\* C9 witness: a job was resubmitted and the loop over the indices of the
\* sample has not ended.
C9_Witness ==
    /\ pc \in {"absent", "check"}
    /\ i < jdl_dict[cur]
    /\ submitted # <<>>

\* C10: without submit-missing nothing is ever resubmitted; with it, when the
\* run ends the resubmitted paths are the report list, entry for entry and in
\* the same order.
C10_ResubmitInOrder ==
    /\ ~submit_missing => submitted = <<>>
    /\ (submit_missing /\ Terminated) => submitted = missing_files

\* C10 witness: a run that resubmitted two jobs has ended.
C10_Witness ==
    /\ ReportPrinted
    /\ submit_missing
    /\ Len(submitted) >= 2
    /\ submitted[1] # submitted[2]


\* ------------------------------------------------- the report as a function
\* the elements of a finite set of numbers, in ascending order
RECURSIVE Ascending(_)
Ascending(S) ==
    IF S = {} THEN <<>>
    ELSE LET m == CHOOSE x \in S : \A y \in S : x <= y
         IN  <<m>> \o Ascending(S \ {m})

\* the indices of a sample that the inputs of the run put in the report
DueOf(sample) ==
    IF ~HasExpected(sample) THEN {}
    ELSE IF SecondaryRequired /\ ~parquet[sample].exists
         THEN {n \in 0..(jdl_dict[sample] - 1) : ~InQueue(sample, n)}
    ELSE IF ~pickles[sample].exists THEN {}
    ELSE {n \in 0..(jdl_dict[sample] - 1) : ~InQueue(sample, n) /\ ~Complete(sample, n)}

\* the (sample, index) pairs of the report, from the k-th listed sample on
RECURSIVE ReportFrom(_)
ReportFrom(k) ==
    IF k > Len(samples) THEN <<>>
    ELSE LET due == Ascending(DueOf(samples[k]))
         IN  [j \in DOMAIN due |-> <<samples[k], due[j]>>] \o ReportFrom(k + 1)

\* the (sample, index) pair that a path of the report names
EntryKey(f) == <<SubSeq(f.stem, 2, Len(f.stem) - 1), ParseInt(f.stem[Len(f.stem)])>>
KeysOf(paths) == [k \in DOMAIN paths |-> EntryKey(paths[k])]

\* C11: the printed report is a function of the inputs of the run alone (the
\* sample order, the expected counts, the two directory states and listings
\* of each sample, the running jobs, the year and the processor): both lists
\* name exactly the pairs that this function gives, in its order, so two runs
\* on the same inputs print the same report.
C11_FunctionOfInputs ==
    ReportPrinted =>
        /\ KeysOf(missing_files) = ReportFrom(1)
        /\ KeysOf(err_files) = ReportFrom(1)
        /\ \A k \in DOMAIN missing_files : missing_files[k].stem[1] = year

\* C11 witness: a report over two samples was printed, each of them has an
\* entry, and a job was left out because it is running.
C11_Witness ==
    /\ ReportPrinted
    /\ Len(samples) = 2
    /\ \A sample \in Range(samples) : EntriesOf(sample) # {}
    /\ running_jobs # <<>>

\* C12: at every point, the k-th entry of the report is the directive path
\* condor/<processor>/<tag>/<year>_<sample>_<n>.jdl of a listed sample and an
\* index below its expected count, and the k-th log path is
\* condor/<processor>/<tag>/logs/<year>_<sample>_<n>.err of the same year,
\* sample and index, whichever branch appended the entry.
C12_ReportPaths ==
    /\ Len(err_files) = Len(missing_files)
    /\ \A k \in DOMAIN missing_files :
          \E sample \in Range(samples) \cap DOMAIN jdl_dict :
              \E n \in 0..(jdl_dict[sample] - 1) :
                  /\ missing_files[k] =
                        [dir  |-> <<"condor", processor, "v1">>,
                         stem |-> <<year>> \o sample \o <<ToStr(n)>>,
                         ext  |-> "jdl"]
                  /\ err_files[k] =
                        [dir  |-> <<"condor", processor, "v1", "logs">>,
                         stem |-> <<year>> \o sample \o <<ToStr(n)>>,
                         ext  |-> "err"]

\* C12 witness: the printed report has an entry of a sample whose parquet
\* directory is absent and an entry of a sample whose directories both exist.
C12_Witness ==
    /\ ReportPrinted
    /\ SecondaryRequired
    /\ \E a, b \in Range(samples) :
          /\ ~parquet[a].exists /\ EntriesOf(a) # {}
          /\ parquet[b].exists /\ pickles[b].exists /\ EntriesOf(b) # {}

\* C13 (as claimed): when check-running is off, running_jobs is empty, condor_q
\* is never run and the printed report has every index below an expected
\* count that lacks a required output; condor_q is run at most once, and not
\* after the sample loop has started.
C13_RunningOptIn ==
    /\ ~check_running => running_jobs = <<>> /\ queries = 0
    /\ queries <= 1
    /\ pc \in {"start", "queue"} => queries = 0
    /\ pc \notin {"start", "queue"} /\ check_running => queries = 1
    /\ ReportPrinted /\ ~check_running =>
          \A sample \in Range(samples) \cap DOMAIN jdl_dict :
              \A n \in 0..(jdl_dict[sample] - 1) :
                  ~Complete(sample, n) => Reported(sample, n)

\* the place of a sample in the storage listing
PlaceOf(sample) == CHOOSE p \in DOMAIN samples : samples[p] = sample

\* C14: at every point, the entries of the report follow the order of the
\* storage listing by sample, the indices of one sample are strictly
\* ascending, and no entry of another sample lies between two entries of one
\* sample.
C14_ReportOrder ==
    LET keys == KeysOf(missing_files) IN
    /\ \A k, l \in DOMAIN keys :
          k < l =>
              /\ PlaceOf(keys[k][1]) <= PlaceOf(keys[l][1])
              /\ keys[k][1] = keys[l][1] => keys[k][2] < keys[l][2]
    /\ \A k, m, l \in DOMAIN keys :
          k < m /\ m < l /\ keys[k][1] = keys[l][1] => keys[m][1] = keys[k][1]

\* C14 witness: the printed report has two entries of the first listed sample
\* and, after them, an entry of the second one.
C14_Witness ==
    /\ ReportPrinted
    /\ Len(samples) = 2
    /\ Cardinality(EntriesOf(samples[1])) = 2
    /\ EntriesOf(samples[2]) # {}

\* the message m about job n of the sample was printed
Printed(m, sample, n) ==
    \E k \in DOMAIN log : log[k] = [msg |-> m, sample |-> sample, i |-> n]

\* C15: when the report is printed, for a sample that went through the
\* per-index check, the missing-pickle message of index n was printed
\* exactly when n is reported and is not among the primary outputs, the
\* missing-parquet message exactly when n is reported, parquet files are
\* required and n is not among the secondary outputs; every reported index
\* has one of the two, and a running or complete index has neither.  A sample
\* that did not go through the per-index check has no such message.
C15_ArtifactAnnotation ==
    ReportPrinted =>
        \A sample \in Range(samples) :
            \A n \in 0..(MaxIdx + 1) :
                IF pickles[sample].exists /\ (SecondaryRequired => parquet[sample].exists)
                THEN /\ Printed("missing pickle", sample, n) <=>
                          Reported(sample, n) /\ n \notin Primary(sample)
                     /\ Printed("missing parquet", sample, n) <=>
                          Reported(sample, n) /\ SecondaryRequired /\ n \notin Secondary(sample)
                     /\ Reported(sample, n) =>
                          Printed("missing pickle", sample, n) \/ Printed("missing parquet", sample, n)
                     /\ InQueue(sample, n) \/ Complete(sample, n) =>
                          /\ ~Printed("missing pickle", sample, n)
                          /\ ~Printed("missing parquet", sample, n)
                ELSE /\ ~Printed("missing pickle", sample, n)
                     /\ ~Printed("missing parquet", sample, n)

\* C15 witness: the printed report has an index with both messages, and an
\* incomplete index of the same sample is running and has none.
C15_Witness ==
    /\ ReportPrinted
    /\ \E sample \in Range(samples) :
          /\ pickles[sample].exists /\ parquet[sample].exists
          /\ \E n, m \in 0..MaxIdx :
                /\ Reported(sample, n)
                /\ Printed("missing pickle", sample, n)
                /\ Printed("missing parquet", sample, n)
                /\ HasExpected(sample) /\ m < jdl_dict[sample]
                /\ InQueue(sample, m) /\ ~Complete(sample, m)

\* C16: when the report is printed for a sample whose listings are in any
\* order and may name an index several times, the report is the ascending
\* list of the indices below the expected count that are not in the set of
\* listed primary indices or, when parquet files are required, not in the set
\* of listed secondary indices: each such index once, whatever the order and
\* the repetitions of the listings.
C16_SetSemantics ==
    ReportPrinted =>
        \A sample \in Range(samples) :
            [k \in DOMAIN missing_files |-> ParseInt(Last(missing_files[k].stem))] =
                Ascending({n \in 0..(jdl_dict[sample] - 1) :
                              \/ n \notin Primary(sample)
                              \/ SecondaryRequired /\ n \notin Secondary(sample)})

\* C16 witness: the report was printed with an entry, the pickles listing
\* names one index twice and is not in ascending order.
C16_Witness ==
    /\ ReportPrinted
    /\ missing_files # <<>>
    /\ \E sample \in Range(samples) :
          LET l == pickles[sample].files IN
          /\ \E k, m \in DOMAIN l : k < m /\ Last(l[k]) = Last(l[m])
          /\ \E k, m \in DOMAIN l : k < m /\ ParseInt(Last(l[k])) > ParseInt(Last(l[m]))

\* C17: at every point, a sample whose expected count is 0 has no entry in
\* the report, no log path and no resubmission, whether its parquet directory
\* is absent or it goes through the per-index check.
C17_ZeroCount ==
    \A sample \in Range(samples) \cap DOMAIN jdl_dict :
        jdl_dict[sample] = 0 =>
            /\ \A k \in DOMAIN missing_files :
                  SubSeq(missing_files[k].stem, 2, Len(missing_files[k].stem) - 1) # sample
            /\ \A k \in DOMAIN err_files :
                  SubSeq(err_files[k].stem, 2, Len(err_files[k].stem) - 1) # sample
            /\ \A k \in DOMAIN submitted :
                  SubSeq(submitted[k].stem, 2, Len(submitted[k].stem) - 1) # sample

\* C17 witness: the report was printed with resubmission enabled after two
\* samples of expected count 0 were handled, one whose parquet directory is
\* absent and one whose directories exist and list no output.
C17_Witness ==
    /\ ReportPrinted
    /\ submit_missing
    /\ SecondaryRequired
    /\ \E a, b \in Range(samples) \cap DOMAIN jdl_dict :
          /\ jdl_dict[a] = 0 /\ ~parquet[a].exists
          /\ jdl_dict[b] = 0 /\ parquet[b].exists /\ pickles[b].exists
          /\ Primary(b) = {} /\ Secondary(b) = {}

\* C18: at every point between two steps of the run, the report list and the
\* list of log paths have the same length, and the k-th directive path and
\* the k-th log path name the same year, sample and index.
C18_PairedLists ==
    /\ Len(missing_files) = Len(err_files)
    /\ \A k \in DOMAIN missing_files :
          k \in DOMAIN err_files =>
              /\ missing_files[k].stem[1] = err_files[k].stem[1]
              /\ EntryKey(missing_files[k]) = EntryKey(err_files[k])

\* C18 witness: in the middle of the sample loop the lists hold two entries
\* or more, appended by the two branches.
C18_Witness ==
    /\ ~Terminated
    /\ Len(missing_files) >= 2
    /\ \E a, b \in Range(samples) :
          /\ SecondaryRequired /\ ~parquet[a].exists /\ EntriesOf(a) # {}
          /\ parquet[b].exists /\ EntriesOf(b) # {}

\* C19: at every point, with each sample listed once, no path is twice in the
\* report list and none was handed to condor_submit twice; a sample for which
\* the absent parquet directory was announced has no message of the
\* per-index check.
C19_NoDuplicates ==
    /\ \A k, l \in DOMAIN missing_files : k # l => missing_files[k] # missing_files[l]
    /\ \A k, l \in DOMAIN submitted : k # l => submitted[k] # submitted[l]
    /\ \A sample \in Range(samples) :
          Printed("no parquet directory", sample, 0) =>
              /\ ~Printed("no pickles directory", sample, 0)
              /\ \A n \in 0..(MaxIdx + 1) :
                    /\ ~Printed("missing pickle", sample, n)
                    /\ ~Printed("missing parquet", sample, n)

\* C19 witness: the report was printed with resubmission enabled; a sample
\* without parquet directory has two entries, another sample has entries from
\* the per-index check, and all of them were resubmitted.
C19_Witness ==
    /\ ReportPrinted
    /\ submit_missing
    /\ SecondaryRequired
    /\ Len(submitted) >= 3
    /\ \E a, b \in Range(samples) :
          /\ ~parquet[a].exists /\ Cardinality(EntriesOf(a)) = 2
          /\ parquet[b].exists /\ pickles[b].exists /\ EntriesOf(b) # {}

\* C20 (as claimed): when the report is printed, every index below the
\* expected count of a sample is expected, directive or not: an index that
\* has no directive, is listed in neither output directory and is not
\* running has an entry in the report, and was resubmitted when that is
\* enabled.
C20_ContiguousRange ==
    ReportPrinted =>
        \A sample \in Range(samples) \cap DOMAIN jdl_dict :
            \A n \in 0..(jdl_dict[sample] - 1) :
                (/\ n \notin DirectiveIndices(sample)
                 /\ n \notin Primary(sample)
                 /\ n \notin Secondary(sample)
                 /\ ~InQueue(sample, n)) =>
                    /\ Reported(sample, n)
                    /\ submit_missing => Resubmitted(sample, n)

\* the samples that have a directory in the output storage
InStorage == DOMAIN pickles

\* C21: at every point, a sample that has no directory in the output storage
\* has no expected count, no entry in the report, no log path, no
\* resubmission and no message, whatever directives of the year name it.
C21_StorageUniverse ==
    /\ DOMAIN jdl_dict \subseteq InStorage
    /\ \A k \in DOMAIN missing_files : EntryKey(missing_files[k])[1] \in InStorage
    /\ \A k \in DOMAIN err_files : EntryKey(err_files[k])[1] \in InStorage
    /\ \A k \in DOMAIN submitted : EntryKey(submitted[k])[1] \in InStorage
    /\ \A k \in DOMAIN log : log[k].sample \in InStorage

\* C21 witness: the report was printed with resubmission enabled; a sample
\* that is not in the storage has a directive of the year, and a job of a
\* sample that is in the storage was reported and resubmitted.
C21_Witness ==
    /\ ReportPrinted
    /\ submit_missing
    /\ submitted # <<>>
    /\ \E n \in Names \ InStorage :
          \E f \in condor_dir :
              /\ f.ext = "jdl"
              /\ Len(f.stem) >= 3
              /\ f.stem[1] = year
              /\ SubSeq(f.stem, 2, Len(f.stem) - 1) = n

\* a running job whose year, sample and index are those of job n of the sample
SameJobRunning(sample, n) ==
    \E k \in DOMAIN running_jobs :
        LET r == running_jobs[k] IN
        /\ Len(r) >= 3
        /\ r[1] = year
        /\ SubSeq(r, 2, Len(r) - 1) = sample
        /\ r[Len(r)] = ToStr(n)

\* C22: when the report is printed, an index below the expected count of a
\* sample that the loop checks and that lacks a required output (or whose
\* parquet directory is absent) is left out of the report exactly when a
\* running job has its year, its sample and its index; running jobs of
\* another year or of another sample do not keep it out.
C22_RunningKey ==
    ReportPrinted =>
        \A sample \in Range(samples) \cap DOMAIN jdl_dict :
            \A n \in 0..(jdl_dict[sample] - 1) :
                (\/ SecondaryRequired /\ ~parquet[sample].exists
                 \/ /\ pickles[sample].exists
                    /\ ~Complete(sample, n)) =>
                    (Reported(sample, n) <=> ~SameJobRunning(sample, n))

\* C22 witness: the report was printed with an entry for a job while the
\* queue held the same sample and index of another year and the same index
\* of a sample whose name starts with the name of this one.
C22_Witness ==
    /\ ReportPrinted
    /\ \E sample \in Range(samples) :
          \E n \in 0..MaxIdx :
              /\ Reported(sample, n)
              /\ \E k \in DOMAIN running_jobs :
                    /\ running_jobs[k][1] # year
                    /\ running_jobs[k] = <<running_jobs[k][1]>> \o sample \o <<ToStr(n)>>
              /\ \E k \in DOMAIN running_jobs :
                    /\ running_jobs[k][1] = year
                    /\ Len(running_jobs[k]) > Len(sample) + 2
                    /\ SubSeq(running_jobs[k], 2, Len(sample) + 1) = sample
                    /\ running_jobs[k][Len(running_jobs[k])] = ToStr(n)

\* ------------------------------------------- _process_samples: vocabulary
Returned == ppc = "returned"
\* the elements of bg_order that are in the bg_keys given, in bg_order's order
WantedBg ==
    SelectSeq(given.bg_order, LAMBDA x : \E k \in DOMAIN given.bg_keys : given.bg_keys[k] = x)
\* a systematic and a variation are given
Systematic == given.syst # <<>> /\ given.variation \in {"up", "down"}
Weighted(key) == Systematic /\ key \in given.syst[1].wsamples
\* <key>_<wshift>_<variation> for a key in wsamples, the key itself otherwise
Renamed(key) ==
    IF Weighted(key) THEN key \o <<given.syst[1].wshift, given.variation>> ELSE key
Suffixed(key, label) ==
    IF Weighted(key) THEN label \o <<IF given.variation = "up" THEN " Up" ELSE " Down">>
    ELSE label
\* the signal keys and scales before any renaming
BaseSigKeys ==
    IF given.sig_scale_dict = <<>> THEN Range(given.sig_keys)
    ELSE {e.key : e \in Range(given.sig_scale_dict[1])} \cap Range(given.sig_keys)
BaseScale(key) ==
    IF given.sig_scale_dict = <<>> THEN 1
    ELSE (CHOOSE e \in Range(given.sig_scale_dict[1]) : e.key = key).val
KeySet(d) == {e.key : e \in Range(d)}
ScaleNow(key) == (CHOOSE e \in Range(sig_scale_dict) : e.key = key).val
\* a signal key given is already the renamed form of another one
Collision == \E a, b \in BaseSigKeys : a # b /\ Renamed(a) = b
\* colours and labels have the length of the keys, and the k-th of each is
\* that of the k-th wanted key
BgAligned ==
    /\ Len(bg_keys) = Len(WantedBg)
    /\ Len(bg_colours) = Len(bg_keys)
    /\ Len(bg_labels) = Len(bg_keys)
    /\ \A k \in DOMAIN bg_keys :
          LET key == WantedBg[k] IN
          /\ bg_colours[k] = COLOURS[given.bg_colours[key]]
          /\ bg_labels[k] =
                Suffixed(key, IF key \in DOMAIN sample_label_map
                              THEN sample_label_map[key] ELSE key)
\* the two signal dicts have the keys of the base dict, those in wsamples
\* renamed, each with the scale of its base key
SigAligned ==
    /\ KeySet(sig_labels) = KeySet(sig_scale_dict)
    /\ KeySet(sig_scale_dict) = {Renamed(key) : key \in BaseSigKeys}
    /\ \A key \in BaseSigKeys : ScaleNow(Renamed(key)) = BaseScale(key)

\* C23 (as claimed): when _process_samples returns, the background keys are
\* exactly the elements of bg_order that are in the bg_keys given, in that
\* order; colours and labels are aligned with them; the signal labels and
\* scales have the same keys, those in wsamples renamed with their scale
\* kept, the others unchanged.
C23_Aligned ==
    Returned =>
        /\ bg_keys = WantedBg
        /\ BgAligned
        /\ SigAligned

\* C23 (amended): when _process_samples returns, the background keys are the
\* elements of bg_order that are in the bg_keys given, in that order, each
\* one in wsamples renamed <key>_<wshift>_<variation> when a systematic and a
\* variation are given; colours and labels are aligned with them, the label
\* of a renamed key with " Up" or " Down" added; the signal labels and scales
\* have the same keys and, when no signal key given is already the renamed
\* form of another one, those in wsamples are renamed with their scale kept
\* and the others are unchanged.
C23_AlignedRenamed ==
    Returned =>
        /\ bg_keys = [k \in DOMAIN WantedBg |-> Renamed(WantedBg[k])]
        /\ BgAligned
        /\ KeySet(sig_labels) = KeySet(sig_scale_dict)
        /\ ~Collision => SigAligned

\* C23 witness: the call returned with a systematic and a variation; two
\* backgrounds are kept, one of them renamed, and two signals, one of them
\* renamed, with a scale other than 1.
C23_Witness ==
    /\ Returned
    /\ Systematic
    /\ ~Collision
    /\ Len(bg_keys) = 2
    /\ \E k \in DOMAIN bg_keys : bg_keys[k] # WantedBg[k]
    /\ bg_colours[1] # bg_colours[2]
    /\ Cardinality(KeySet(sig_scale_dict)) = 2
    /\ \E key \in BaseSigKeys :
          Weighted(key) /\ Renamed(key) \in KeySet(sig_scale_dict) /\ BaseScale(key) # 1

====
